---- MODULE Spec2Model ----
(***************************************************************************)
(* Model of the Kafka -> Algolia ingestion service                         *)
(* (kafka_data_ingestion/kafka_consumer.py).                               *)
(*                                                                         *)
(* A record (a Python dict) is a function from a finite set of field names *)
(* to values.  Values are integers: None stands for Python's None / JSON   *)
(* null, 0 is the falsy-but-valid value, 1 a truthy value.  The search     *)
(* index is a dict from objectID to the stored record; save_objects        *)
(* replaces the stored record of each objectID it is given.                *)
(***************************************************************************)
EXTENDS Integers, Sequences, FiniteSets, TLC

\* ------------------------------------------------------------------ bounds

\* Number of messages the feed delivers during one run.
MaxMessages == 2

\* Largest value of the BATCH_SIZE setting that is explored (1..MaxBatchSize).
MaxBatchSize == 2

\* ------------------------------------------------------------- data model

\* Python None (JSON null), as tested by "merged[field] is None".
None == -1

\* The identifier field.
OID == "objectID"

\* Payload field carried by stream messages and catalog records.
FieldNames == {"a"}

\* Values of a payload field: null, the falsy 0, and a truthy value.
Values == {None, 0, 1}

\* objectID values.
Ids == {1, 2}

\* d[k] = v on a dict.
Extend(d, k, v) == [x \in DOMAIN d \cup {k} |-> IF x = k THEN v ELSE d[x]]

\* Every dict over a subset of the payload fields.
Payloads == UNION {[S -> Values] : S \in SUBSET FieldNames}

\* What the feed can deliver: every payload under every identifier, and one
\* message without identifier (nothing ever reads the payload of such a
\* message: it is neither looked up nor matched).
Messages ==
  {Extend(p, OID, i) : p \in Payloads, i \in Ids} \cup [FieldNames -> {1}]

\* Records the catalog pipeline may have stored under identifier i before the
\* run: the field is missing, null, or set to the falsy value (a truthy value
\* is stored once the service itself has written one).
CatalogRecords(i) ==
  {Extend(p, OID, i) : p \in UNION {[S -> {None, 0}] : S \in SUBSET FieldNames}}

\* Every initial content of the index.
Catalogs ==
  UNION {{f \in [S -> UNION {CatalogRecords(i) : i \in Ids}] :
            \A i \in S : f[i][OID] = i} : S \in SUBSET Ids}

\* ------------------------------------------------------- kafka_consumer.py

\* The three delivery-metadata fields put on a message before it is buffered.
\* n is the ordinal of the message in the feed (its offset, and the clock
\* reading of utcnow()); the feed has a single partition 0.
Stamp(product_update, n) ==
  Extend(Extend(Extend(product_update, "_kafka_timestamp", n),
                "_kafka_offset", n),
         "_kafka_partition", 0)

\* object_ids = [p['objectID'] for p in products if 'objectID' in p]
RECURSIVE ObjectIds(_)
ObjectIds(products) ==
  IF products = <<>> THEN <<>>
  ELSE LET p == Head(products) IN
       IF OID \in DOMAIN p THEN <<p[OID]>> \o ObjectIds(Tail(products))
       ELSE ObjectIds(Tail(products))

\* What the index answers to get_objects(object_ids): per requested id the
\* stored record, or null when there is none.
GetObjects(idx, object_ids) ==
  [j \in 1..Len(object_ids) |->
     IF object_ids[j] \in DOMAIN idx
     THEN [tag |-> "obj", obj |-> idx[object_ids[j]]]
     ELSE [tag |-> "null"]]

\* A malformed response: element j of the results is not a record (a number,
\* say), so that "'objectID' in record" raises TypeError.  j = 0: well formed.
Malform(results, j) ==
  [x \in 1..Len(results) |-> IF x = j THEN [tag |-> "bad"] ELSE results[x]]

\* The loop that fills existing_records from response['results'].  A malformed
\* element raises inside the try block: the except clause only logs, and
\* existing_records keeps the entries stored before the exception.
RECURSIVE BuildExisting(_, _)
BuildExisting(results, existing_records) ==
  IF results = <<>> THEN existing_records
  ELSE LET record == Head(results) IN
       IF record.tag = "bad" THEN existing_records
       ELSE IF record.tag = "obj" /\ OID \in DOMAIN record.obj
            THEN BuildExisting(Tail(results),
                               Extend(existing_records, record.obj[OID], record.obj))
            ELSE BuildExisting(Tail(results), existing_records)

\* A truthiness test in place of the None test: "not merged.get(field)".
EnrichableFalsy(merged, field) ==
  field \notin DOMAIN merged \/ merged[field] \in {None, 0}

\* A presence test alone: "field not in merged".
EnrichableAbsent(merged, field) ==
  field \notin DOMAIN merged

\* "field not in merged or merged[field] is None"
Enrichable(merged, field) ==
  field \notin DOMAIN merged \/ merged[field] = None

\* A merge in which the value of kafka_product always wins.
MergeRecordOverwrite(existing, kafka_product) ==
  [field \in DOMAIN existing \cup DOMAIN kafka_product |->
     IF field \in DOMAIN kafka_product
     THEN kafka_product[field]
     ELSE existing[field]]

\* merged = dict(existing); then every field of kafka_product that is
\* enrichable in merged is set from kafka_product.  Each field of
\* kafka_product is visited once, so the test reads existing's value.
MergeRecord(existing, kafka_product) ==
  [field \in DOMAIN existing \cup DOMAIN kafka_product |->
     IF field \in DOMAIN kafka_product /\ Enrichable(existing, field)
     THEN kafka_product[field]
     ELSE existing[field]]

\* kafka_product.get('objectID')
ObjectIdOf(kafka_product) ==
  IF OID \in DOMAIN kafka_product THEN kafka_product[OID] ELSE None

\* A merge loop that uploads a new record without its delivery timestamp.
MergeOneStripped(existing_records, kafka_product) ==
  IF ObjectIdOf(kafka_product) \in DOMAIN existing_records
  THEN MergeRecord(existing_records[ObjectIdOf(kafka_product)], kafka_product)
  ELSE [k \in DOMAIN kafka_product \ {"_kafka_timestamp"} |-> kafka_product[k]]

\* One iteration of the merge loop: the record appended to merged_products.
MergeOne(existing_records, kafka_product) ==
  IF ObjectIdOf(kafka_product) \in DOMAIN existing_records
  THEN MergeRecord(existing_records[ObjectIdOf(kafka_product)], kafka_product)
  ELSE kafka_product

\* A merge loop that passes over a record when a later record of the batch
\* has the same objectID.
MergeBatchDistinct(products, existing_records) ==
  LET keep == {i \in 1..Len(products) :
                 \A j \in (i + 1)..Len(products) :
                   ObjectIdOf(products[j]) # ObjectIdOf(products[i])}
      kept == SelectSeq([i \in 1..Len(products) |-> <<i, products[i]>>],
                        LAMBDA e : e[1] \in keep)
  IN [i \in 1..Len(kept) |-> MergeOne(existing_records, kept[i][2])]

\* A merge loop that emits the merged records in reverse batch order.
MergeBatchReversed(products, existing_records) ==
  [i \in 1..Len(products) |->
     MergeOne(existing_records, products[Len(products) + 1 - i])]

\* The merge loop over the whole batch, in batch order.
MergeBatch(products, existing_records) ==
  [i \in 1..Len(products) |-> MergeOne(existing_records, products[i])]

\* An index that updates the stored record field by field (the semantics of
\* partial_update_objects) instead of replacing it.
RECURSIVE UpsertPartial(_, _)
UpsertPartial(idx, records) ==
  IF records = <<>> THEN idx
  ELSE LET r == Head(records) IN
       UpsertPartial(
         IF OID \in DOMAIN r
         THEN Extend(idx, r[OID],
                     IF r[OID] \in DOMAIN idx
                     THEN [k \in DOMAIN idx[r[OID]] \cup DOMAIN r |->
                             IF k \in DOMAIN r THEN r[k] ELSE idx[r[OID]][k]]
                     ELSE r)
         ELSE idx,
         Tail(records))

\* The index after save_objects(records): records are applied in order, each
\* replacing the stored record of its objectID.
RECURSIVE Upsert(_, _)
Upsert(idx, records) ==
  IF records = <<>> THEN idx
  ELSE LET r == Head(records) IN
       Upsert(IF OID \in DOMAIN r THEN Extend(idx, r[OID], r) ELSE idx,
              Tail(records))

\* An except clause that takes the failed records back out of the count of
\* consumed messages.
CountErrorUncount(s) ==
  [s EXCEPT !.errors = @ + 1,
            !.messages_processed = IF @ > 0 THEN @ - 1 ELSE 0]

\* An except clause that logs the failure without counting it.
CountErrorNot(s) == s

\* self.stats['errors'] += 1 in the except clause of _upload_batch.
CountError(s) == [s EXCEPT !.errors = @ + 1]

\* A count of the uploaded batches instead of the uploaded records.
CountUpdatedOne(s, merged) == [s EXCEPT !.products_updated = @ + 1]

\* self.stats['products_updated'] += len(merged_products)
CountUpdated(s, merged) == [s EXCEPT !.products_updated = @ + Len(merged)]

\* A loop that uploads the buffer only once it has outgrown batch_size.
BatchFullLate(buffer, size) == Len(buffer) > size

\* The buffer is uploaded when len(batch) >= batch_size.
BatchFull(buffer, size) == Len(buffer) >= size

\* An _upload_batch without the early return on an empty object_ids.
SkipsBatchEmptyOnly(products) == products = <<>>

\* An _upload_batch without its two early returns.
SkipsBatchNever(products) == FALSE

\* _upload_batch returns at once on an empty batch and on a batch in which
\* no record has an objectID.
SkipsBatch(products) == products = <<>> \/ ObjectIds(products) = <<>>

\* The environment variables __init__ refuses to start without.
Required == {"ALGOLIA_APP_ID", "ALGOLIA_API_KEY"}

\* A run() whose KeyboardInterrupt handler exits without the summary.
SummaryPrintedOnReturn(c) == c \in {"exhausted", "no_capture", "no_kafka"}

\* The ways a run ends, and what run() does with each: a return of the mode
\* function ("exhausted", "no_capture", "no_kafka") prints the summary and
\* run() returns; KeyboardInterrupt ("interrupt") prints the summary and
\* exits 0; any other exception ("source_error") logs and exits 1.
SummaryPrinted(c) == c \in {"exhausted", "no_capture", "no_kafka", "interrupt"}

\* A run() in which a missing capture ends the run like an exception.
ExitStatusStrict(c) == IF c \in {"source_error", "no_capture"} THEN 1 ELSE 0

ExitStatus(c) == IF c = "source_error" THEN 1 ELSE 0

\* ------------------------------------------------ parsers/kafka_parser.py

\* The content of the demo capture: a JSON list of messages.
Captures == UNION {[1..n -> Messages] : n \in 0..MaxMessages}

\* Position of the key id in the dict kafka_updates (kept as the list of its
\* entries in insertion order), 0 when the key is absent.
KeyIndex(kafka_updates, id) ==
  IF \E i \in 1..Len(kafka_updates) : kafka_updates[i].key = id
  THEN CHOOSE i \in 1..Len(kafka_updates) : kafka_updates[i].key = id
  ELSE 0

\* The loop of parse_kafka_messages from message n on: a message without
\* objectID is passed over, any other is stamped with _kafka_processed_at
\* (the clock reading is the ordinal n) and stored under its objectID.
RECURSIVE ParseFrom(_, _, _)
ParseFrom(messages, n, kafka_updates) ==
  IF n > Len(messages) THEN kafka_updates
  ELSE IF OID \notin DOMAIN messages[n]
  THEN ParseFrom(messages, n + 1, kafka_updates)
  ELSE LET message == Extend(messages[n], "_kafka_processed_at", n)
           entry == [key |-> message[OID], value |-> message]
           at == KeyIndex(kafka_updates, entry.key)
       IN ParseFrom(messages, n + 1,
                    IF at = 0 THEN Append(kafka_updates, entry)
                    ELSE [kafka_updates EXCEPT ![at] = entry])

\* A parser that stores the identifier and the processing time only.
ParseBare(messages) ==
  LET kafka_updates == ParseFrom(messages, 1, <<>>) IN
  [i \in 1..Len(kafka_updates) |->
     [key |-> kafka_updates[i].key,
      value |-> [f \in {OID, "_kafka_processed_at"} |-> kafka_updates[i].value[f]]]]

\* parse_kafka_messages: the dict kafka_updates it returns.
parse_kafka_messages(messages) == ParseFrom(messages, 1, <<>>)

\* list(kafka_updates.values())
DictValues(kafka_updates) ==
  [i \in 1..Len(kafka_updates) |-> kafka_updates[i].value]

\* What a capture file can hold: the messages of the feed, bare or carrying a
\* _kafka_processed_at field from an earlier processing.
ParserMessages ==
  Messages \cup {Extend(m, "_kafka_processed_at", 0) : m \in Messages}

\* The message lists handed to a direct call of the parser.
ParserCaptures == UNION {[1..n -> ParserMessages] : n \in 0..MaxMessages}

\* Keys outside the kafka-only list that a raw message carries.
OtherFields == {OID, "name", "description"}

\* A listed key dropped when its value is null.
ExtractNonNull(kafka_data) ==
  [field \in {f \in {"type", "price_range", "url", "free_shipping",
                      "popularity", "rating"} :
                f \in DOMAIN kafka_data /\ kafka_data[f] # None} |->
     kafka_data[field]]

\* kafka_only_fields
KafkaOnlyFields ==
  {"type", "price_range", "url", "free_shipping", "popularity", "rating"}

\* extract_kafka_only_fields
extract_kafka_only_fields(kafka_data) ==
  [field \in {f \in KafkaOnlyFields : f \in DOMAIN kafka_data} |->
     kafka_data[field]]

\* The raw messages handed to a direct call of extract_kafka_only_fields:
\* every key absent, null or set.
RawRecords ==
  UNION {[S -> {None, 1}] : S \in SUBSET (KafkaOnlyFields \cup OtherFields)}

\* ------------------------------------------------------------------ state

VARIABLES
  pc,                \* control point of the run
  missing,           \* the required environment variables that are not set
  mode,              \* self.config['kafka_mode']: "DEMO" or "LIVE"
  batch_size,        \* self.config['batch_size']
  capture,           \* messages read from the demo capture file
  offset,            \* messages delivered by the feed so far
  batch,             \* the buffer of _run_production_mode
  caller,            \* where _upload_batch was called from:
                     \* "loop", "finally", "demo", "test"
  products,          \* argument of the running _upload_batch
  object_ids,        \* its local object_ids
  existing_records,  \* its local existing_records
  merged_products,   \* its local merged_products
  index,             \* content of the Algolia index
  stats,             \* self.stats
  log,               \* what the running _upload_batch has done so far
  lookup_ids,        \* argument of its get_objects call
  writer_input,      \* argument of its save_objects call
  emitted,           \* per feed offset: how many _upload_batch calls got the record
  cause,             \* how the run ended
  summaries,         \* number of summaries printed by _print_summary
  exit_code,         \* exit status of the process, None while it runs
  parser_pc,         \* which parser function is called, and whether it returned
  json_messages,     \* parse_kafka_messages: the messages read by json.load
  parsed,            \* parse_kafka_messages: the returned kafka_updates
  raw_data,          \* extract_kafka_only_fields: the argument kafka_data
  enriched           \* extract_kafka_only_fields: the returned enrichment

vars == <<pc, missing, mode, batch_size, capture, offset, batch, caller,
          products, object_ids, existing_records, merged_products, index,
          stats, log, lookup_ids, writer_input, emitted, cause, summaries,
          exit_code, parser_pc, json_messages, parsed, raw_data, enriched>>

\* The variables that live inside one call of _upload_batch.
call_vars == <<caller, products, object_ids, existing_records,
               merged_products, log, lookup_ids, writer_input>>

\* The configuration, fixed at construction.
config_vars == <<missing, mode, batch_size>>

\* The variables of a direct call of a function of parsers/kafka_parser.py.
parser_vars == <<parser_pc, json_messages, parsed, raw_data, enriched>>

\* No parser function is called directly.
NoParserCall ==
  /\ parser_pc = "idle"
  /\ json_messages = <<>>
  /\ parsed = <<>>
  /\ raw_data = <<>>
  /\ enriched = <<>>

\* What run() leaves behind when the process ends.
end_vars == <<cause, summaries, exit_code>>

Last(s) == IF s = <<>> THEN "" ELSE s[Len(s)]

InitStats == [messages_processed |-> 0, products_updated |-> 0, errors |-> 0]

Init ==
  /\ pc = "init"
  /\ missing \in SUBSET Required
  /\ mode \in {"DEMO", "LIVE"}
  /\ batch_size \in 1..MaxBatchSize
  /\ capture = <<>>
  /\ offset = 0
  /\ batch = <<>>
  /\ caller = "none"
  /\ products = <<>>
  /\ object_ids = <<>>
  /\ existing_records = <<>>
  /\ merged_products = <<>>
  /\ index \in Catalogs
  /\ stats = InitStats
  /\ log = <<>>
  /\ lookup_ids = <<>>
  /\ writer_input = <<>>
  /\ NoParserCall
  /\ emitted = [n \in 0..(MaxMessages - 1) |-> 0]
  /\ cause = "none"
  /\ summaries = 0
  /\ exit_code = None

\* ---------------------------------------------------------------- actions

\* No call of _upload_batch is running.
NoCall ==
  /\ caller' = "none"
  /\ products' = <<>>
  /\ object_ids' = <<>>
  /\ existing_records' = <<>>
  /\ merged_products' = <<>>
  /\ log' = <<>>
  /\ lookup_ids' = <<>>
  /\ writer_input' = <<>>

\* The feed offsets of the records of a batch.
Offsets(prods) ==
  {prods[i]["_kafka_offset"] :
     i \in {j \in 1..Len(prods) : "_kafka_offset" \in DOMAIN prods[j]}}

\* Entry of _upload_batch(prods), up to the get_objects call.
EnterUpload(prods, from) ==
  /\ caller' = from
  /\ products' = prods
  /\ object_ids' = ObjectIds(prods)
  /\ existing_records' = <<>>
  /\ merged_products' = <<>>
  /\ lookup_ids' = <<>>
  /\ writer_input' = <<>>
  /\ emitted' = [n \in DOMAIN emitted |->
                   IF n \in Offsets(prods) THEN emitted[n] + 1 ELSE emitted[n]]
  /\ IF SkipsBatch(prods)
     THEN /\ pc' = "return"
          /\ log' = <<"skipped">>
     ELSE /\ pc' = "lookup"
          /\ log' = <<"upload">>

\* The end of run() when the run is over because of c: the summary is printed
\* or not, and the process exits.
EndRun(c) ==
  /\ cause' = c
  /\ summaries' = IF SummaryPrinted(c) THEN summaries + 1 ELSE summaries
  /\ exit_code' = ExitStatus(c)
  /\ pc' = "exited"

\* A constructor that does not look at the environment.
ConstructUnchecked ==
  /\ pc = "init"
  /\ pc' = "run"
  /\ UNCHANGED <<config_vars, parser_vars, capture, offset, batch, call_vars, index, stats,
                 emitted, end_vars>>

\* KafkaToAlgolia(): without the credentials the process exits with status 1.
Construct ==
  /\ pc = "init"
  /\ IF missing # {}
     THEN /\ pc' = "exited"
          /\ cause' = "config"
          /\ exit_code' = 1
     ELSE /\ pc' = "run"
          /\ UNCHANGED <<cause, exit_code>>
  /\ UNCHANGED <<config_vars, parser_vars, capture, offset, batch, call_vars, index, stats,
                 emitted, summaries>>

\* _run_demo_mode: the capture file is missing, or it does not parse, or it
\* is parsed and its records are uploaded as one batch.
DemoStart ==
  /\ pc = "run"
  /\ mode = "DEMO"
  /\ \/ /\ EndRun("no_capture")
        /\ UNCHANGED <<capture, stats, call_vars, emitted>>
     \/ /\ EndRun("source_error")
        /\ UNCHANGED <<capture, stats, call_vars, emitted>>
     \/ \E messages \in Captures :
          LET prods == DictValues(parse_kafka_messages(messages)) IN
          /\ capture' = messages
          /\ stats' = [stats EXCEPT !.messages_processed = Len(prods)]
          /\ IF prods # <<>>
             THEN /\ EnterUpload(prods, "demo")
                  /\ UNCHANGED end_vars
             ELSE /\ EndRun("exhausted")
                  /\ UNCHANGED <<call_vars, emitted>>
  /\ UNCHANGED <<config_vars, parser_vars, offset, batch, index>>

\* _run_production_mode up to the loop: the import of kafka fails, or the
\* construction of the consumer raises, or the consumer is connected.
LiveStart ==
  /\ pc = "run"
  /\ mode = "LIVE"
  /\ \/ EndRun("no_kafka")
     \/ EndRun("source_error")
     \/ /\ pc' = "poll"
        /\ UNCHANGED end_vars
  /\ UNCHANGED <<config_vars, parser_vars, capture, offset, batch, call_vars, index, stats,
                 emitted>>

\* A finally block that closes the consumer and does nothing for the records
\* of the buffer.
FinallyBlockNoFlush(c) ==
  /\ EndRun(c)
  /\ NoCall
  /\ UNCHANGED emitted

\* The finally block of _run_production_mode, entered because of c: the
\* records left in the buffer are uploaded, then the consumer is closed and
\* what made the loop end reaches run().
FinallyBlock(c) ==
  IF batch # <<>>
  THEN /\ EnterUpload(batch, "finally")
       /\ cause' = c
       /\ UNCHANGED <<summaries, exit_code>>
  ELSE /\ EndRun(c)
       /\ NoCall
       /\ UNCHANGED emitted

\* One iteration of "for message in consumer".
Pull ==
  /\ pc = "poll"
  /\ offset < MaxMessages
  /\ \E m \in Messages :
       /\ batch' = Append(batch, Stamp(m, offset))
       /\ offset' = offset + 1
       /\ stats' = [stats EXCEPT !.messages_processed = @ + 1]
       /\ IF BatchFull(batch', batch_size)
          THEN EnterUpload(batch', "loop")
          ELSE UNCHANGED <<pc, call_vars, emitted>>
  /\ UNCHANGED <<config_vars, parser_vars, capture, index, end_vars>>

\* The iteration over the consumer ends: the finally block runs.
SourceClosed ==
  /\ pc = "poll"
  /\ FinallyBlock("exhausted")
  /\ UNCHANGED <<config_vars, parser_vars, capture, offset, batch, index, stats>>

\* The iteration over the consumer raises (the feed fails, a message does
\* not deserialize): the finally block runs and the exception goes on.
SourceError ==
  /\ pc = "poll"
  /\ FinallyBlock("source_error")
  /\ UNCHANGED <<config_vars, parser_vars, capture, offset, batch, index, stats>>

\* The control points inside _upload_batch.
InCall == {"lookup", "merge", "save", "wait", "return"}

\* KeyboardInterrupt. No handler of _upload_batch catches it, so a running
\* call is left where it is. Raised in the loop (waiting for a message, or
\* in the call made by the loop, the buffer not yet reset) it runs the finally
\* block; raised in the call of the finally block or of the demo mode it
\* reaches run().
Interrupt ==
  /\ pc \in {"poll"} \cup InCall
  /\ IF pc = "poll" \/ caller = "loop"
     THEN FinallyBlock("interrupt")
     ELSE /\ EndRun("interrupt")
          /\ NoCall
          /\ UNCHANGED emitted
  /\ UNCHANGED <<config_vars, parser_vars, capture, offset, batch, index, stats>>

\* get_objects(object_ids) and the construction of existing_records.
Lookup ==
  /\ pc = "lookup"
  /\ lookup_ids' = object_ids
  /\ \/ /\ existing_records' = <<>>
        /\ log' = Append(log, "lookup_raise")
     \/ \E j \in 0..Len(object_ids) :
          /\ existing_records' =
               BuildExisting(Malform(GetObjects(index, object_ids), j), <<>>)
          /\ log' = Append(log, IF j = 0 THEN "lookup_ok" ELSE "lookup_malformed")
  /\ pc' = "merge"
  /\ UNCHANGED <<config_vars, parser_vars, capture, offset, batch, caller, products,
                 object_ids, merged_products, index, stats, writer_input,
                 emitted, end_vars>>

\* A merge loop with "merged = existing" in place of "merged = dict(existing)":
\* the enrichment is written into the entry of existing_records itself.
MergeInPlace ==
  /\ pc = "merge"
  /\ merged_products' = MergeBatch(products, existing_records)
  /\ existing_records' =
       [id \in DOMAIN existing_records |->
          IF \E i \in 1..Len(products) : ObjectIdOf(products[i]) = id
          THEN MergeRecord(existing_records[id],
                           products[CHOOSE i \in 1..Len(products) :
                                      ObjectIdOf(products[i]) = id])
          ELSE existing_records[id]]
  /\ log' = Append(log, "merge")
  /\ pc' = "save"
  /\ UNCHANGED <<config_vars, parser_vars, capture, offset, batch, caller, products,
                 object_ids, index, stats, lookup_ids,
                 writer_input, emitted, end_vars>>

\* The merge loop.
Merge ==
  /\ pc = "merge"
  /\ merged_products' = MergeBatch(products, existing_records)
  /\ log' = Append(log, "merge")
  /\ pc' = "save"
  /\ UNCHANGED <<config_vars, parser_vars, capture, offset, batch, caller, products,
                 object_ids, existing_records, index, stats, lookup_ids,
                 writer_input, emitted, end_vars>>

\* "if merged_products:" then save_objects(merged_products): it raises, or it
\* returns a response that carries raw_responses (the task is then awaited),
\* or one that carries none (the batch is counted at once).
Save ==
  /\ pc = "save"
  /\ IF merged_products = <<>>
     THEN /\ log' = Append(log, "nothing")
          /\ pc' = "return"
          /\ UNCHANGED <<writer_input, index, stats>>
     ELSE /\ writer_input' = merged_products
          /\ \/ /\ log' = Append(log, "save_raise")
                /\ stats' = CountError(stats)
                /\ index' = index
                /\ pc' = "return"
             \/ /\ log' = Append(log, "save_ok")
                /\ index' = Upsert(index, merged_products)
                /\ stats' = stats
                /\ pc' = "wait"
             \/ /\ log' = Append(log, "save_unconfirmed")
                /\ index' = Upsert(index, merged_products)
                /\ stats' = CountUpdated(stats, merged_products)
                /\ pc' = "return"
  /\ UNCHANGED <<config_vars, parser_vars, capture, offset, batch, caller, products,
                 object_ids, existing_records, merged_products, lookup_ids,
                 emitted, end_vars>>

\* wait_task(task_id) on the last raw response of the save.
Wait ==
  /\ pc = "wait"
  /\ \/ /\ log' = Append(log, "wait_raise")
        /\ stats' = CountError(stats)
     \/ /\ log' = Append(log, "wait_ok")
        /\ stats' = CountUpdated(stats, merged_products)
  /\ pc' = "return"
  /\ UNCHANGED <<config_vars, parser_vars, capture, offset, batch, caller, products,
                 object_ids, existing_records, merged_products, index,
                 lookup_ids, writer_input, emitted, end_vars>>

\* Callers of _upload_batch other than run(): a unit test, and a harness that
\* hands it a batch of the feed and the same batch again.
DirectCallers == {"test", "delivery", "redelivery"}

\* Where control goes when _upload_batch returns to the consumption loop or to
\* the code that called it directly.
AfterUpload(from) == IF from = "loop" THEN "poll" ELSE "called"

\* _upload_batch returns: the loop resets the buffer and polls again; after
\* the call of the finally block the consumer is closed and what made the
\* loop end reaches run(); after the call of the demo mode run() ends.
Return ==
  /\ pc = "return"
  /\ IF caller \in {"loop"} \cup DirectCallers
     THEN /\ pc' = AfterUpload(caller)
          /\ UNCHANGED end_vars
     ELSE EndRun(IF caller = "demo" THEN "exhausted" ELSE cause)
  /\ batch' = IF caller = "loop" THEN <<>> ELSE batch
  /\ NoCall
  /\ UNCHANGED <<config_vars, parser_vars, capture, offset, index, stats, emitted>>

Next ==
  \/ Construct
  \/ DemoStart
  \/ LiveStart
  \/ Pull
  \/ SourceClosed
  \/ SourceError
  \/ Interrupt
  \/ Lookup
  \/ Merge
  \/ Save
  \/ Wait
  \/ Return

Spec == Init /\ [][Next]_vars

\* _upload_batch called directly on a list of records, as the unit tests do.
DirectCall ==
  /\ pc = "run"
  /\ \E prods \in Captures : EnterUpload(prods, "test")
  /\ UNCHANGED <<config_vars, parser_vars, capture, offset, batch, index, stats, end_vars>>

NextCall ==
  \/ Construct
  \/ DirectCall
  \/ Lookup
  \/ Merge
  \/ Save
  \/ Wait
  \/ Return

SpecCall == Init /\ [][NextCall]_vars

\* ------------------------------------------------------------- properties

\* The merge loop has run for the current batch and its inputs are in scope.
Merged == pc \in {"save", "wait", "return"} /\ merged_products # <<>>

\* Positions of the batch whose identifier has an existing record.
Matched == {i \in 1..Len(products) :
              ObjectIdOf(products[i]) \in DOMAIN existing_records}

\* The existing record the i-th incoming record is merged with.
ExistingOf(i) == existing_records[ObjectIdOf(products[i])]

\* C1 (no-overwrite): after the merge step, for every incoming record with an
\* existing record e of the same identifier, every field that e holds with a
\* non-null value (0 included) has e's value in the merged record, whatever
\* the incoming record carries at that field.
NoOverwrite ==
  Merged =>
    \A i \in Matched :
      \A k \in DOMAIN ExistingOf(i) :
        ExistingOf(i)[k] # None =>
          /\ k \in DOMAIN merged_products[i]
          /\ merged_products[i][k] = ExistingOf(i)[k]

\* A batch was merged in which the existing record holds the falsy value 0
\* at a field where the incoming record carries 1.
NoOverwriteWitness ==
  /\ Merged
  /\ \E i \in Matched :
       /\ "a" \in DOMAIN ExistingOf(i) /\ ExistingOf(i)["a"] = 0
       /\ "a" \in DOMAIN products[i] /\ products[i]["a"] = 1
       /\ merged_products[i]["a"] = 0

\* C2 (enrichment): after the merge step, for every incoming record r with an
\* existing record e of the same identifier, every field carried by r that is
\* absent from e or null in e has r's value in the merged record.
Enrichment ==
  Merged =>
    \A i \in Matched :
      \A k \in DOMAIN products[i] :
        (k \notin DOMAIN ExistingOf(i) \/ ExistingOf(i)[k] = None) =>
          /\ k \in DOMAIN merged_products[i]
          /\ merged_products[i][k] = products[i][k]

\* A batch was merged in which the existing record holds null at a field
\* where the incoming record carries 1, and lacks the metadata fields.
EnrichmentWitness ==
  /\ Merged
  /\ \E i \in Matched :
       /\ "a" \in DOMAIN ExistingOf(i) /\ ExistingOf(i)["a"] = None
       /\ "a" \in DOMAIN products[i] /\ products[i]["a"] = 1
       /\ "_kafka_offset" \notin DOMAIN ExistingOf(i)
       /\ merged_products[i]["a"] = 1

\* C3 (new-record passthrough): the list handed to save_objects holds, at the
\* position of every incoming record whose identifier is not in
\* existing_records, that incoming record itself.
NewRecordPassthrough ==
  writer_input # <<>> =>
    /\ Len(writer_input) = Len(products)
    /\ \A i \in (1..Len(products)) \ Matched : writer_input[i] = products[i]

\* save_objects was called with a record whose identifier has no existing
\* record although the lookup succeeded.
NewRecordPassthroughWitness ==
  /\ writer_input # <<>>
  /\ "lookup_ok" \in {log[x] : x \in 1..Len(log)}
  /\ \E i \in (1..Len(products)) \ Matched :
       /\ OID \in DOMAIN products[i]
       /\ "a" \in DOMAIN products[i]
       /\ writer_input[i] = products[i]

\* What the running _upload_batch has logged so far.
Logged == {log[x] : x \in 1..Len(log)}

\* C4 (catalog is authoritative over whole runs): no step of a run changes or
\* removes a value of the index that is present and non-null.
CatalogAuthoritative ==
  [][\A id \in DOMAIN index :
       \A k \in DOMAIN index[id] :
         index[id][k] # None =>
           /\ id \in DOMAIN index'
           /\ k \in DOMAIN index'[id]
           /\ index'[id][k] = index[id][k]]_vars

\* C5 (missing identifier dropped): every id passed to get_objects is an
\* identifier, and every record passed to save_objects carries the identifier
\* field.
MissingIdDropped ==
  /\ \A j \in 1..Len(lookup_ids) : lookup_ids[j] \in Ids
  /\ \A i \in 1..Len(writer_input) : OID \in DOMAIN writer_input[i]

\* The Writer (save_objects or wait_task) raised in the step just taken.
WriterRaised == {"save_raise", "wait_raise"}

\* C6 (write failure is soft): the step in which save_objects or wait_task
\* raises adds exactly 1 to the error counter, changes no other counter and
\* ends _upload_batch normally; when the call came from the consumption loop
\* the next step, unless it is an interrupt by the user, resets the buffer and
\* polls the feed again.
WriteFailureSoft ==
  [][/\ (pc \in {"save", "wait"} /\ Last(log') \in WriterRaised) =>
          /\ stats' = [stats EXCEPT !.errors = @ + 1]
          /\ pc' = "return"
     /\ (/\ pc = "return" /\ caller = "loop" /\ Last(log) \in WriterRaised
         /\ cause' = cause) =>
          /\ pc' = "poll"
          /\ batch' = <<>>
          /\ stats' = stats]_vars

\* After one failed write the loop went on, and a later batch was written and
\* confirmed.
WriteFailureSoftWitness ==
  /\ pc = "return"
  /\ caller = "loop"
  /\ stats.errors = 1
  /\ Last(log) = "wait_ok"
  /\ stats.products_updated = 1

\* The lookup of the running _upload_batch raised or answered a malformed
\* response.
LookupFailed == Logged \cap {"lookup_raise", "lookup_malformed"} # {}

\* C7 (lookup failure is soft): after a failed lookup the batch is processed
\* with an empty existing_records, so save_objects is given the incoming
\* records as they are, and save_objects is called before _upload_batch
\* returns.
LookupFailureSoft ==
  LookupFailed =>
    /\ existing_records = <<>>
    /\ writer_input # <<>> => writer_input = products
    /\ pc = "return" => writer_input # <<>>

\* C8 (confirmation before counting): products_updated changes only in the
\* step in which wait_task returns.
ConfirmationBeforeCounting ==
  [][stats'.products_updated # stats.products_updated =>
       Last(log') = "wait_ok"]_vars

\* The existing-record set built from a list of records, keyed by identifier
\* the way existing_records is built from a lookup response.
KeyById(records) ==
  BuildExisting([i \in 1..Len(records) |-> [tag |-> "obj", obj |-> records[i]]],
                <<>>)

\* No identifier occurs more than once in the batch.
DistinctIds == \A i, j \in 1..Len(object_ids) : i # j => object_ids[i] # object_ids[j]

\* C9 as stated (merge idempotence, for every batch): merging the batch again,
\* with its own merge output as the existing-record set, gives the same
\* output.
MergeIdempotentAnyBatch ==
  Merged => MergeBatch(products, KeyById(merged_products)) = merged_products

\* C9 as amended: merge idempotence for every batch in which no identifier
\* occurs more than once.
MergeIdempotent ==
  (Merged /\ DistinctIds) =>
    MergeBatch(products, KeyById(merged_products)) = merged_products

\* A batch of two records with distinct identifiers was merged, and one of
\* them was enriched from its existing record.
MergeIdempotentWitness ==
  /\ Merged
  /\ DistinctIds
  /\ Len(object_ids) = 2
  /\ \E i \in Matched :
       /\ merged_products[i] # ExistingOf(i)
       /\ merged_products[i] # products[i]

\* The step just taken is a save_objects call that did not raise.
SaveSucceeds ==
  pc = "save" /\ Last(log') \in {"save_ok", "save_unconfirmed"}

\* Field k is absent or null in the catalog record of id (or there is none).
CatalogMissing(id, k) ==
  id \notin DOMAIN index \/ k \notin DOMAIN index[id] \/ index[id][k] = None

\* Positions of the batch that carry identifier id.
PositionsOf(id) == {i \in 1..Len(products) : ObjectIdOf(products[i]) = id}

\* Identifiers carried by two or more records of the batch.
RepeatedIds == {id \in Ids : Cardinality(PositionsOf(id)) >= 2}

\* Fields carried by some record of the batch with identifier id.
FieldsOf(id) == UNION {DOMAIN products[i] : i \in PositionsOf(id)}

Max(S) == CHOOSE x \in S : \A y \in S : y <= x

IdCount(records, id) ==
  Cardinality({i \in 1..Len(records) : ObjectIdOf(records[i]) = id})

\* The records the source delivered for the batch being processed: the
\* content of the capture in demo mode, the buffer in live mode.
Delivered == IF mode = "DEMO" THEN capture ELSE batch

\* C11 as stated (no deduplication before merge, in demo and in live mode):
\* once a batch is merged, the merged list, and the list given to
\* save_objects, hold as many records of each identifier as the source
\* delivered for that batch.
NoDeduplication ==
  Merged =>
    \A id \in Ids :
      /\ IdCount(merged_products, id) = IdCount(Delivered, id)
      /\ writer_input # <<>> => IdCount(writer_input, id) = IdCount(Delivered, id)

\* C11 amended (no deduplication before merge in live mode): once a batch of
\* the feed is merged, the merged list has one record per buffered record,
\* position by position with the same identifier, and save_objects is given
\* that list.
NoDeduplicationLive ==
  (mode = "LIVE" /\ Merged) =>
    /\ Len(merged_products) = Len(batch)
    /\ \A i \in 1..Len(batch) :
         ObjectIdOf(merged_products[i]) = ObjectIdOf(batch[i])
    /\ \A id \in Ids : IdCount(merged_products, id) = IdCount(Delivered, id)
    /\ writer_input # <<>> => writer_input = merged_products

\* In live mode save_objects was given two records with the same identifier.
NoDeduplicationLiveWitness ==
  /\ mode = "LIVE"
  /\ pc = "return"
  /\ \E id \in Ids : IdCount(batch, id) = 2 /\ IdCount(writer_input, id) = 2

\* C12 (partial batches are never dropped): when a live run is over, every
\* record that was taken from the feed and appended to the buffer has been
\* given to _upload_batch in some batch, however the loop ended.
PartialBatchFlushed ==
  (mode = "LIVE" /\ pc = "exited") =>
    \A n \in 0..(offset - 1) : emitted[n] >= 1

\* A live run was interrupted with fewer than batch_size records in the
\* buffer, and ended after the finally block had uploaded them.
PartialBatchFlushedWitness ==
  /\ mode = "LIVE"
  /\ pc = "exited"
  /\ cause = "interrupt"
  /\ batch # <<>>
  /\ Len(batch) < batch_size
  /\ \A n \in Offsets(batch) : emitted[n] = 1

\* C13 as stated (batch size bound, in demo and in live mode): every batch
\* given to _upload_batch has at most batch_size records, and a batch uploaded
\* by the consumption loop, which is never the last of its run, has exactly
\* batch_size.
BatchSizeBound ==
  caller # "none" =>
    /\ Len(products) <= batch_size
    /\ caller = "loop" => Len(products) = batch_size

\* C13 amended (batch size bound in live mode): every batch given to
\* _upload_batch by the consumption loop has exactly batch_size records, and
\* the batch given by the finally block has at most batch_size.
BatchSizeBoundLive ==
  /\ caller = "loop" => Len(products) = batch_size
  /\ caller = "finally" => Len(products) <= batch_size

\* The finally block uploads a batch smaller than batch_size.
BatchSizeBoundLiveWitness ==
  /\ caller = "finally"
  /\ cause = "exhausted"
  /\ Len(products) < batch_size
  /\ pc = "return"
  /\ writer_input # <<>>

\* C14 (empty batch): _upload_batch on an empty list, called on a new
\* consumer, returns without a get_objects call and without a save_objects
\* call, and the three counters keep their initial values.
EmptyBatchNoEffect ==
  (caller = "test" /\ products = <<>>) =>
    /\ pc = "return"
    /\ log = <<"skipped">>
    /\ lookup_ids = <<>>
    /\ writer_input = <<>>
    /\ stats = InitStats

\* _upload_batch was called on an empty list and has returned.
EmptyBatchNoEffectWitness ==
  /\ caller = "test"
  /\ products = <<>>
  /\ pc = "return"

\* C15 (successful batch accounting): when every record of the batch has an
\* identifier, the lookup answered without any existing record, save_objects
\* returned and wait_task returns, save_objects was given the N records of the
\* batch, products_updated grows by exactly N and the two other counters do
\* not change, whatever N is.
SuccessfulBatchAccounting ==
  [][(/\ pc = "wait"
      /\ Last(log') = "wait_ok"
      /\ "lookup_ok" \in Logged
      /\ existing_records = <<>>
      /\ Len(object_ids) = Len(products)) =>
        /\ writer_input = products
        /\ stats' = [stats EXCEPT !.products_updated = @ + Len(products)]]_vars

\* A batch larger than batch_size, all of new records, was written, confirmed
\* and counted.
SuccessfulBatchAccountingWitness ==
  /\ caller = "test"
  /\ pc = "return"
  /\ Last(log) = "wait_ok"
  /\ "lookup_ok" \in Logged
  /\ existing_records = <<>>
  /\ Len(object_ids) = Len(products)
  /\ Len(products) > batch_size
  /\ stats.products_updated = Len(products)

\* C16 (cancellation completes the in-flight batch): in live mode a call of
\* _upload_batch that has started its lookup, its merge, its save or its
\* confirmation wait goes on with the same batch to its next stage or to its
\* return, whatever happens meanwhile: no step abandons it, and none leads
\* from inside it to the end of the run.
InFlightBatchCompletes ==
  [][(mode = "LIVE" /\ pc \in {"lookup", "merge", "save", "wait"}) =>
       /\ pc' \in InCall
       /\ caller' = caller
       /\ products' = products]_vars

\* C17 (summary on normal and interrupted termination): a run that is over
\* because its source was exhausted or because the user interrupted it has
\* printed the summary, once, and has exit status 0.
SummaryOnTermination ==
  (pc = "exited" /\ cause \in {"exhausted", "interrupt"}) =>
    /\ summaries = 1
    /\ exit_code = 0

\* A live run that had pulled a record was interrupted, printed the summary
\* and exited with status 0.
SummaryOnTerminationWitness ==
  /\ pc = "exited"
  /\ mode = "LIVE"
  /\ cause = "interrupt"
  /\ offset > 0
  /\ summaries = 1
  /\ exit_code = 0

\* C18 (source error reports statistics): a run that is over because its
\* source failed has printed the summary.
SourceErrorReportsStatistics ==
  (pc = "exited" /\ cause = "source_error") => summaries >= 1

\* C19 (configuration error is fatal before processing): when a required
\* credential is missing the process is either not yet constructed or has
\* exited with status 1, and nothing was read from the capture or the feed,
\* looked up, written or counted.
ConfigErrorFatal ==
  missing # {} =>
    /\ pc \in {"init", "exited"}
    /\ pc = "exited" => (cause = "config" /\ exit_code = 1)
    /\ capture = <<>>
    /\ offset = 0
    /\ caller = "none"
    /\ lookup_ids = <<>>
    /\ writer_input = <<>>
    /\ stats = InitStats
    /\ summaries = 0

\* The process exited with status 1 because one credential was missing.
ConfigErrorFatalWitness ==
  /\ Cardinality(missing) = 1
  /\ pc = "exited"
  /\ exit_code = 1

\* C20 (startup failure exit code): a live run that is over because the
\* import of the Kafka client failed has exit status 1.
StartupFailureExitCode ==
  (pc = "exited" /\ mode = "LIVE" /\ cause = "no_kafka") => exit_code = 1

\* C21 (demo capture missing): the step in which the demo mode finds no
\* capture file is taken from a run that has counted nothing, changes no
\* counter, leaves the index alone and starts no _upload_batch call; the
\* mode function returns, so run() prints the summary and the process ends
\* with status 0.
DemoCaptureMissing ==
  [][(cause # "no_capture" /\ cause' = "no_capture") =>
       /\ mode = "DEMO"
       /\ stats = InitStats
       /\ stats' = stats
       /\ index' = index
       /\ caller' = "none"
       /\ lookup_ids' = <<>>
       /\ writer_input' = <<>>
       /\ pc' = "exited"
       /\ summaries' = 1
       /\ exit_code' = 0]_vars

\* A demo run ended because the capture file was missing.
DemoCaptureMissingWitness ==
  /\ mode = "DEMO"
  /\ pc = "exited"
  /\ cause = "no_capture"
  /\ stats = InitStats

\* ------------------------------------------- parsers/kafka_parser.py, called
\* directly (tests/test_parsers.py): no consumer is constructed.

NoConsumer ==
  /\ pc = "no_consumer"
  /\ missing = {}
  /\ mode = "DEMO"
  /\ batch_size = 1
  /\ capture = <<>>
  /\ offset = 0
  /\ batch = <<>>
  /\ caller = "none"
  /\ products = <<>>
  /\ object_ids = <<>>
  /\ existing_records = <<>>
  /\ merged_products = <<>>
  /\ index = <<>>
  /\ stats = InitStats
  /\ log = <<>>
  /\ lookup_ids = <<>>
  /\ writer_input = <<>>
  /\ emitted = [n \in 0..(MaxMessages - 1) |-> 0]
  /\ cause = "none"
  /\ summaries = 0
  /\ exit_code = None

consumer_vars == <<pc, config_vars, capture, offset, batch, call_vars, index,
                   stats, emitted, end_vars>>

\* The argument of the call is chosen: a message list for the parser, or a
\* raw message for the extraction.
InitParsers ==
  /\ NoConsumer
  /\ parsed = <<>>
  /\ enriched = <<>>
  /\ \/ /\ parser_pc = "parse"
        /\ json_messages \in ParserCaptures
        /\ raw_data = <<>>
     \/ /\ parser_pc = "extract"
        /\ json_messages = <<>>
        /\ raw_data \in RawRecords

\* parse_kafka_messages(kafka_file_path) on a file holding json_messages.
ParseCall ==
  /\ parser_pc = "parse"
  /\ parsed' = parse_kafka_messages(json_messages)
  /\ parser_pc' = "parsed"
  /\ UNCHANGED <<consumer_vars, json_messages, raw_data, enriched>>

\* extract_kafka_only_fields(kafka_data)
ExtractCall ==
  /\ parser_pc = "extract"
  /\ enriched' = extract_kafka_only_fields(raw_data)
  /\ parser_pc' = "extracted"
  /\ UNCHANGED <<consumer_vars, json_messages, raw_data, parsed>>

NextParsers == ParseCall \/ ExtractCall

SpecParsers == InitParsers /\ [][NextParsers]_vars

\* The objectID values of the messages of a list that have one.
InputIds(messages) ==
  {messages[n][OID] : n \in {k \in 1..Len(messages) : OID \in DOMAIN messages[k]}}

\* The keys of a dict.
Keys(kafka_updates) ==
  {kafka_updates[i].key : i \in 1..Len(kafka_updates)}

\* The entry of a parsed dict is an input message with that objectID, all of
\* whose fields outside the set skip have the value they had in the input.
FromInput(entry, messages, skip) ==
  \E n \in 1..Len(messages) :
    /\ OID \in DOMAIN messages[n]
    /\ messages[n][OID] = entry.key
    /\ DOMAIN messages[n] \subseteq DOMAIN entry.value
    /\ \A f \in DOMAIN messages[n] \ skip : entry.value[f] = messages[n][f]

\* The key set of the parser's result is the set of objectID values of the
\* input, no key occurs twice, every value carries its key as objectID, and
\* an empty input gives an empty dict.
ParserKeys ==
  /\ Keys(parsed) = InputIds(json_messages)
  /\ \A i, j \in 1..Len(parsed) : parsed[i].key = parsed[j].key => i = j
  /\ \A i \in 1..Len(parsed) : parsed[i].value[OID] = parsed[i].key
  /\ json_messages = <<>> => parsed = <<>>

\* C22 as stated: the result of parse_kafka_messages has the objectID values
\* of the input as its keys, and each key maps to an input message with that
\* objectID with ALL its original fields preserved.
DemoParser ==
  parser_pc = "parsed" =>
    /\ ParserKeys
    /\ \A i \in 1..Len(parsed) : FromInput(parsed[i], json_messages, {})

\* C22 (demo parser), amended: the result of parse_kafka_messages has the
\* objectID values of the input as its keys; each key maps to an input message
\* with that objectID whose original fields other than _kafka_processed_at are
\* all preserved, and whose _kafka_processed_at field is present (the parser
\* sets it, replacing a value the input carried); messages without objectID
\* are omitted; an empty input yields an empty mapping.
DemoParserStamped ==
  parser_pc = "parsed" =>
    /\ ParserKeys
    /\ \A i \in 1..Len(parsed) :
         /\ FromInput(parsed[i], json_messages, {"_kafka_processed_at"})
         /\ "_kafka_processed_at" \in DOMAIN parsed[i].value

\* The parser returned a non-empty dict for an input with a message without
\* objectID and a message that already carried a processing time.
DemoParserStampedWitness ==
  /\ parser_pc = "parsed"
  /\ parsed # <<>>
  /\ Len(parsed) < Len(json_messages)
  /\ \E n \in 1..Len(json_messages) : OID \notin DOMAIN json_messages[n]
  /\ \E n \in 1..Len(json_messages) :
       /\ OID \in DOMAIN json_messages[n]
       /\ "_kafka_processed_at" \in DOMAIN json_messages[n]
       /\ "a" \in DOMAIN json_messages[n]

\* C23 (kafka-only extraction): the result of extract_kafka_only_fields has
\* exactly the input's keys among type, price_range, url, free_shipping,
\* popularity, rating, each with the input's value (a null value included);
\* no other key of the input (objectID, name, description) is in the result.
KafkaOnlyExtraction ==
  parser_pc = "extracted" =>
    /\ DOMAIN enriched =
         DOMAIN raw_data \cap {"type", "price_range", "url", "free_shipping",
                               "popularity", "rating"}
    /\ \A field \in DOMAIN enriched : enriched[field] = raw_data[field]
    /\ \A field \in {"type", "price_range", "url", "free_shipping",
                     "popularity", "rating"} :
         (field \in DOMAIN raw_data /\ raw_data[field] = None) =>
           (field \in DOMAIN enriched /\ enriched[field] = None)
    /\ DOMAIN enriched \cap {OID, "name", "description"} = {}

\* The extraction returned from a raw message with a null listed key, a set
\* listed key, and the three unlisted keys.
KafkaOnlyExtractionWitness ==
  /\ parser_pc = "extracted"
  /\ {OID, "name", "description", "type", "rating", "url"} \subseteq DOMAIN raw_data
  /\ raw_data["type"] = None
  /\ raw_data["rating"] = None
  /\ raw_data["url"] = 1
  /\ DOMAIN enriched = {"type", "rating", "url"}

\* --------------------------------------------------- at-least-once delivery

\* The records of a batch as the feed delivers them again: the same values at
\* the same offsets, stamped with a later clock reading.
Redelivered(prods) ==
  [i \in 1..Len(prods) |->
     Extend(prods[i], "_kafka_timestamp", prods[i]["_kafka_timestamp"] + MaxMessages)]

InitRedelivery == Init /\ mode = "LIVE"

\* A batch of the feed is handed to _upload_batch.
Deliver ==
  /\ pc = "run"
  /\ \E messages \in Captures :
       /\ Len(messages) \in 1..batch_size
       /\ EnterUpload([i \in 1..Len(messages) |-> Stamp(messages[i], i - 1)],
                      "delivery")
  /\ UNCHANGED <<config_vars, parser_vars, capture, offset, batch, index, stats,
                 end_vars>>

\* The batch was processed and its write confirmed; the feed delivers the
\* same batch again and it is handed to _upload_batch.
Redeliver ==
  /\ pc = "return"
  /\ caller = "delivery"
  /\ Last(log) = "wait_ok"
  /\ EnterUpload(Redelivered(products), "redelivery")
  /\ UNCHANGED <<config_vars, parser_vars, capture, offset, batch, index, stats,
                 end_vars>>

NextRedelivery ==
  \/ Construct
  \/ Deliver
  \/ Redeliver
  \/ Lookup
  \/ Merge
  \/ Save
  \/ Wait
  \/ Return

SpecRedelivery == InitRedelivery /\ [][NextRedelivery]_vars

\* C24 (redelivery is harmless): while a batch that was processed and
\* confirmed is processed again after a successful lookup, no step changes
\* the index: the index after the second processing is the index after the
\* first.
RedeliveryHarmless ==
  [][(caller = "redelivery" /\ "lookup_ok" \in Logged) => index' = index]_vars

\* The second processing of a batch with a repeated identifier was written
\* and confirmed, and the Writer was given records that differ from the
\* redelivered ones.
RedeliveryHarmlessWitness ==
  /\ caller = "redelivery"
  /\ pc = "return"
  /\ "lookup_ok" \in Logged
  /\ Last(log) = "wait_ok"
  /\ RepeatedIds # {}
  /\ writer_input # products
  /\ \E i \in 1..Len(products) :
       "a" \in DOMAIN products[i] /\ products[i]["a"] = 1

\* The write of the running _upload_batch was confirmed or has failed.
WriteSettled == Logged \cap {"save_raise", "wait_raise", "wait_ok"} # {}

\* C25 (strictly sequential batches): in live mode a record is pulled from
\* the feed only while no batch is being processed, and a step that leaves a
\* call of _upload_batch whose write was issued, going on to poll the feed or
\* to process a batch, is taken only once that write is confirmed or failed.
SequentialBatches ==
  [][mode = "LIVE" =>
       /\ offset' # offset => (pc = "poll" /\ caller = "none")
       /\ (/\ pc \in InCall
           /\ writer_input # <<>>
           /\ \/ pc' = "poll"
              \/ caller' \notin {caller, "none"})
          => WriteSettled]_vars

\* C26 (each record is emitted once): no record pulled from the feed is
\* handed to _upload_batch in more than one call.
EmittedOnce ==
  mode = "LIVE" => \A n \in DOMAIN emitted : emitted[n] <= 1

\* C27 (no retry of a failed batch): in live mode, once the write of the
\* batch handed over by the loop has raised, the next step resets the buffer
\* and polls the feed again, so that the records of the failed batch are not
\* handed to the Writer a second time.
NoRetryOfFailedBatch ==
  [][(/\ mode = "LIVE"
      /\ pc = "return"
      /\ caller = "loop"
      /\ Last(log) \in WriterRaised)
     => (batch' = <<>> /\ pc' = "poll")]_vars

\* The results of a lookup in the order given by the permutation perm.
Reordered(results, perm) == [j \in 1..Len(results) |-> results[perm[j]]]

\* C28 (stable output order): the list handed to save_objects is as long as
\* the batch and its i-th element is the merge result of the i-th incoming
\* record (the merge with its existing record, or the record itself when it
\* has none); and the merged list is the same whatever the order in which a
\* successful lookup returns its results.
StableOutputOrder ==
  /\ writer_input # <<>> =>
       /\ Len(writer_input) = Len(products)
       /\ \A i \in 1..Len(products) :
            writer_input[i] =
              IF i \in Matched THEN MergeRecord(ExistingOf(i), products[i])
              ELSE products[i]
  /\ (pc = "save" /\ "lookup_ok" \in Logged) =>
       \A perm \in Permutations(1..Len(object_ids)) :
         merged_products =
           MergeBatch(products,
                      BuildExisting(Reordered(GetObjects(index, object_ids), perm),
                                    <<>>))

\* save_objects was given two records of different identifiers, both merged
\* with their existing records after a successful lookup.
StableOutputOrderWitness ==
  /\ Len(writer_input) = 2
  /\ "lookup_ok" \in Logged
  /\ Matched = {1, 2}
  /\ ObjectIdOf(products[1]) # ObjectIdOf(products[2])
  /\ writer_input[1] # products[1]
  /\ writer_input[1][OID] = ObjectIdOf(products[1])
  /\ writer_input[2][OID] = ObjectIdOf(products[2])

\* C29 (merge does not mutate its inputs): the merge step leaves every entry
\* of existing_records and every incoming record (the argument of the call,
\* and the buffer or the capture it came from) with the fields and values it
\* had; the merged records are built in merged_products, apart from the
\* existing entries.
MergeKeepsInputs ==
  [][(pc = "merge" /\ pc' = "save") =>
       /\ existing_records' = existing_records
       /\ products' = products
       /\ batch' = batch
       /\ capture' = capture
       /\ \A i \in Matched :
            merged_products'[i] = MergeRecord(ExistingOf(i), products[i])]_vars

\* A batch was merged in which an existing record was enriched: the merged
\* record differs from the entry of existing_records it was built from.
MergeKeepsInputsWitness ==
  /\ pc = "save"
  /\ \E i \in Matched :
       /\ merged_products[i] # ExistingOf(i)
       /\ "a" \in DOMAIN ExistingOf(i) /\ ExistingOf(i)["a"] = None
       /\ merged_products[i]["a"] = 1

\* C30 (per-batch counter frame): no step of a run decreases a counter; a
\* step inside a call of _upload_batch leaves messages_processed alone and
\* either changes no counter, or ends the call adding the number of records
\* handed to save_objects to products_updated (errors unchanged), or ends the
\* call adding 1 to errors (products_updated unchanged); the counters change
\* in the step that ends the call only, and a call that is skipped (empty
\* batch, no identifier) changes neither products_updated nor errors.
CounterFrame ==
  [][/\ \A c \in DOMAIN stats : stats'[c] >= stats[c]
     /\ (pc \in InCall /\ pc' \in InCall /\ caller' = caller) =>
          /\ stats'.messages_processed = stats.messages_processed
          /\ \/ stats' = stats
             \/ /\ pc # "return" /\ pc' = "return"
                /\ writer_input' # <<>>
                /\ stats'.products_updated =
                     stats.products_updated + Len(writer_input')
                /\ stats'.errors = stats.errors
             \/ /\ pc # "return" /\ pc' = "return"
                /\ stats'.errors = stats.errors + 1
                /\ stats'.products_updated = stats.products_updated
          /\ (pc # "return" /\ pc' = "return") => stats' # stats
     /\ (pc' = "return" /\ log' = <<"skipped">>) =>
          /\ stats'.products_updated = stats.products_updated
          /\ stats'.errors = stats.errors]_vars

\* A live run in which one call of _upload_batch failed and another one
\* wrote its record.
CounterFrameWitness ==
  /\ mode = "LIVE"
  /\ pc = "return"
  /\ stats.errors = 1
  /\ stats.products_updated = 1
  /\ stats.messages_processed = 2
  /\ Last(log) = "wait_ok"

\* C31 (written never exceeds received): in every state of a demo or live
\* run, products_updated is at most messages_processed.
WrittenAtMostReceived ==
  stats.products_updated <= stats.messages_processed

\* C32 (batch with no identifiers is skipped): _upload_batch on a non-empty
\* list in which no record has an objectID, called on a new consumer, returns
\* without a get_objects call and without a save_objects call, and
\* products_updated and errors keep their values.
NoIdentifierBatchSkipped ==
  (/\ caller = "test"
   /\ products # <<>>
   /\ \A i \in 1..Len(products) : OID \notin DOMAIN products[i]) =>
    /\ pc = "return"
    /\ "lookup_ok" \notin Logged /\ ~LookupFailed
    /\ lookup_ids = <<>>
    /\ merged_products = <<>>
    /\ writer_input = <<>>
    /\ stats.products_updated = 0
    /\ stats.errors = 0

\* _upload_batch was called on two records without objectID and has returned.
NoIdentifierBatchSkippedWitness ==
  /\ caller = "test"
  /\ pc = "return"
  /\ Len(products) = 2
  /\ \A i \in 1..Len(products) : OID \notin DOMAIN products[i]
  /\ index # <<>>

====
